---- MODULE Spec2Model ----
(***************************************************************************)
(* Model of nitpick's navigation core (internal/app/app.go): the App       *)
(* struct driven by the Bubble Tea loop.  One Update handles one message   *)
(* (key, resize, fetch result, timer, filter matches); View runs after     *)
(* Init and after every Update and is a step of the model when it changes  *)
(* the App.  The list and viewport widgets are modelled by the operations  *)
(* app.go calls on them.                                                   *)
(***************************************************************************)
EXTENDS Integers, Sequences, FiniteSets, Bags

VARIABLES
    state,            \* App.state
    repoList,         \* App.repoList
    prList,           \* App.prList
    commentList,      \* App.commentList
    commentViewport,  \* App.commentViewport
    currentRepo,      \* App.currentRepo
    currentPR,        \* App.currentPR
    currentComment,   \* App.currentComment
    loading,          \* App.loading
    err,              \* App.err
    width,            \* App.width
    height,           \* App.height
    copyStatus,       \* App.copyStatus
    showReplies,      \* App.showReplies
    useSimplePrompt,  \* App.useSimplePrompt
    inflight,         \* bag of fetch commands issued and not yet answered
    timers,           \* number of pending tea.Tick clear-status timers
    quit,             \* tea.Quit was returned
    updated,          \* whether Update or View has run since construction
    inputs,           \* inputs of the bounded kinds received so far
    fetchedSinceErr,  \* with an error stored: a fetch was issued since
    ownTimer,         \* the timer scheduled with the last status is pending
    fnIn,             \* the argument of a function applied on its own
    fnOut             \* its result

vars == <<state, repoList, prList, commentList, commentViewport, currentRepo,
          currentPR, currentComment, loading, err, width, height, copyStatus,
          showReplies, useSimplePrompt, inflight, timers, quit, updated,
          inputs, fetchedSinceErr, ownTimer, fnIn, fnOut>>

fnVars == <<fnIn, fnOut>>

appVars == <<state, repoList, prList, commentList, commentViewport,
             currentRepo, currentPR, currentComment, loading, err, width,
             height, copyStatus, showReplies, useSimplePrompt>>

----------------------------------------------------------------------------
(* Bounds of the model *)

MaxInflight == 2
MaxTimers == 2
\* A run has at most MaxInputs inputs of these kinds: a key that opens a
\* filter or is typed into it, moves a cursor, scrolls, copies or toggles;
\* a resize; a failed fetch.  Enter, Esc, quit, the keys p and tab,
\* successful fetches and timers are unbounded.
MaxInputs == 2

----------------------------------------------------------------------------
(* Program constants *)

StateRepos == 0
StatePRs == 1
StateComments == 2
StateCommentDetail == 3

fixedLines == 6

----------------------------------------------------------------------------
(* Values *)

Nil == [kind |-> "nil"]
ErrNil == "<nil>"
ErrFetch == "fetch failed"

Repo(i) == [kind |-> "repo", id |-> i]
PR(r, n) == [kind |-> "pr", repo |-> r, number |-> n]
Comment(r, n, i, reply, upd) ==
    [kind |-> "comment", repo |-> r, pr |-> n, id |-> i,
     inReplyTo |-> reply, updatedAt |-> upd]

\* What the platform holds: repositories in API order, pull requests and
\* comments in the order the API lists them (before the client sorts).
PlatformRepos == <<Repo(1), Repo(2)>>

PlatformPRs(repo) ==
    IF repo.id = 1 THEN <<PR(1, 1), PR(1, 2)>> ELSE <<>>

PlatformComments(repo, pr) ==
    IF pr.number = 2
    THEN <<Comment(repo.id, 2, 1, 0, 1), Comment(repo.id, 2, 2, 1, 2)>>
    ELSE <<>>

\* Terminal sizes a tea.WindowSizeMsg can carry.
Sizes == {<<24, 10>>}

Keys == {"ctrl+c", "q", "esc", "enter", "c", "t", "r", "p",
         "up", "k", "down", "j", "pgup", "h", "pgdown", "l",
         "home", "g", "end", "G", "/", "tab", "x", "backspace"}

Max(a, b) == IF a > b THEN a ELSE b
Min(a, b) == IF a < b THEN a ELSE b

----------------------------------------------------------------------------
(* github client: the result a fetch command computes *)

\* Mutant: ascending by number.
PRLess_ascending(a, b) == a.number < b.number

PRLess(a, b) == a.number > b.number

\* Mutant: a nil timestamp is not looked at and compares as the oldest
\* on either side.
CommentLess_noNilCheck(a, b) == a.updatedAt < b.updatedAt

\* UpdatedAt = 0 stands for a nil timestamp.
CommentLess(a, b) ==
    IF a.updatedAt = 0 /\ b.updatedAt = 0 THEN FALSE
    ELSE IF a.updatedAt = 0 THEN FALSE
    ELSE IF b.updatedAt = 0 THEN TRUE
    ELSE a.updatedAt > b.updatedAt

RECURSIVE InsertPR(_, _)
InsertPR(x, s) ==
    IF s = <<>> THEN <<x>>
    ELSE IF PRLess(x, s[1]) THEN <<x>> \o s
    ELSE <<s[1]>> \o InsertPR(x, Tail(s))

RECURSIVE SortPRs(_)
SortPRs(s) ==
    IF s = <<>> THEN <<>> ELSE InsertPR(s[1], SortPRs(Tail(s)))

RECURSIVE InsertComment(_, _)
InsertComment(x, s) ==
    IF s = <<>> THEN <<x>>
    ELSE IF CommentLess(x, s[1]) THEN <<x>> \o s
    ELSE <<s[1]>> \o InsertComment(x, Tail(s))

RECURSIVE SortComments(_)
SortComments(s) ==
    IF s = <<>> THEN <<>> ELSE InsertComment(s[1], SortComments(Tail(s)))

FetchReposCmd == [kind |-> "repos", repo |-> Nil, pr |-> Nil]
FetchPRsCmd(repo) == [kind |-> "prs", repo |-> repo, pr |-> Nil]
FetchCommentsCmd(repo, pr) == [kind |-> "comments", repo |-> repo, pr |-> pr]

FetchReposResult == PlatformRepos
FetchPRsResult(repo) == SortPRs(PlatformPRs(repo))
FetchCommentsResult(repo, pr) == SortComments(PlatformComments(repo, pr))

\* App.fetchRepos / fetchPRs / fetchComments: the commands handed to the
\* runtime (none when the context is nil).
\* Mutant: Init issues no fetch.
fetchRepos_none == EmptyBag

fetchRepos == SetToBag({FetchReposCmd})
\* Mutant: no fetch for a level whose list is already loaded.
fetchPRs_cached(repo) ==
    IF repo = Nil \/ prList.items # <<>> THEN EmptyBag
    ELSE SetToBag({FetchPRsCmd(repo)})

fetchPRs(repo) ==
    IF repo = Nil THEN EmptyBag ELSE SetToBag({FetchPRsCmd(repo)})

\* Mutant: the comment fetch returns no command.
fetchComments_noCommand(repo, pr) == EmptyBag

\* fetchComments: no command without a repository and a pull request.
fetchComments(repo, pr) ==
    IF repo = Nil \/ pr = Nil THEN EmptyBag
    ELSE SetToBag({FetchCommentsCmd(repo, pr)})

----------------------------------------------------------------------------
(* bubbles list.Model, as far as app.go uses it *)

ListNew ==
    [items |-> <<>>, index |-> 0, filterState |-> "unfiltered",
     filterValue |-> "", filteredItems |-> <<>>, width |-> 0, height |-> 0]

VisibleItems(m) ==
    IF m.filterState # "unfiltered" THEN m.filteredItems ELSE m.items

SelectedItem(m) ==
    LET v == VisibleItems(m)
    IN IF Len(v) = 0 \/ Len(v) <= m.index THEN Nil ELSE v[m.index + 1]

SettingFilter(m) == m.filterState = "filtering"

\* Mutant: the new items are merged into the old ones.
SetItems_append(m, items) ==
    [m EXCEPT !.items = @ \o items,
              !.filteredItems = IF m.filterState # "unfiltered" THEN <<>> ELSE @]

\* SetItems replaces the items; with a filter set it drops the matches and
\* returns a command to recompute them, which app.go discards.
SetItems(m, items) ==
    [m EXCEPT !.items = items,
              !.filteredItems = IF m.filterState # "unfiltered" THEN <<>> ELSE @]

SetSize(m, w, h) == [m EXCEPT !.width = w, !.height = h]

\* The filter matches an item when its number (id) is 1.
FilterMatches(item) ==
    IF item.kind = "repo" THEN item.id = 1
    ELSE IF item.kind = "pr" THEN item.number = 1
    ELSE item.id = 1

FilterItems(m, value) ==
    IF value = "" THEN m.items
    ELSE SelectSeq(m.items, FilterMatches)

ResetFiltering(m) ==
    IF m.filterState = "unfiltered" THEN m
    ELSE [m EXCEPT !.filterState = "unfiltered", !.filterValue = "",
                   !.filteredItems = <<>>]

\* Text typed into the filter input: any character gives a non-empty
\* pattern, backspace empties it.
FilterInput(value, key) ==
    IF key = "backspace" THEN ""
    ELSE IF key \in {"c", "t", "r", "p", "k", "j", "h", "l", "g", "G", "/", "x"}
    THEN "x"
    ELSE value

\* list.Model.Update for a key while the filter is being typed.
UpdateFilter(m, key) ==
    LET accepted ==
            IF key = "esc" THEN ResetFiltering(m)
            ELSE IF key \in {"tab", "up", "down"} /\ m.filterValue # ""
            THEN IF Len(m.items) = 0 THEN m
                 ELSE IF Len(VisibleItems(m)) = 0 THEN ResetFiltering(m)
                 ELSE [m EXCEPT !.filterState = "applied"]
            ELSE m
    IN [accepted EXCEPT !.filterValue = FilterInput(@, key)]

\* list.Model.Update for a key while browsing.
HandleBrowsing(m, key) ==
    LET n == Len(VisibleItems(m))
    IN CASE key \in {"up", "k"} -> [m EXCEPT !.index = Max(@ - 1, 0)]
         [] key \in {"down", "j"} -> [m EXCEPT !.index = Max(Min(@ + 1, n - 1), 0)]
         [] key \in {"home", "g"} -> [m EXCEPT !.index = 0]
         [] key \in {"end", "G"} -> [m EXCEPT !.index = Max(n - 1, 0)]
         [] key = "/" /\ Len(m.items) # 0 ->
                [m EXCEPT !.filteredItems =
                              IF m.filterValue = "" THEN m.items ELSE @,
                          !.index = 0,
                          !.filterState = "filtering"]
         [] OTHER -> m

\* list.Model.Update for a FilterMatchesMsg.
ListUpdateMatches(m, matches) == [m EXCEPT !.filteredItems = matches]

\* list.Model.Update for a key.  When the typed pattern changes, Update
\* returns the filterItems command, which app.go hands to the runtime; the
\* FilterMatchesMsg it produces comes back through App.Update to the current
\* list.  The model delivers that message before any other message.
ListUpdateKey(m, key) ==
    IF m.filterState = "filtering"
    THEN LET u == UpdateFilter(m, key)
         IN IF u.filterValue # m.filterValue
            THEN ListUpdateMatches(u, FilterItems(m, u.filterValue))
            ELSE u
    ELSE HandleBrowsing(m, key)

----------------------------------------------------------------------------
(* bubbles viewport.Model, as far as app.go uses it *)

ViewportNew == [Width |-> 0, Height |-> 0, YOffset |-> 0, lines |-> 0]

maxYOffset(vp) == Max(0, vp.lines - vp.Height)

LineUp(vp, n) == [vp EXCEPT !.YOffset = Max(@ - n, 0)]
LineDown(vp, n) ==
    IF vp.YOffset >= maxYOffset(vp) THEN vp
    ELSE [vp EXCEPT !.YOffset = Min(@ + n, maxYOffset(vp))]
HalfViewUp(vp) ==
    [vp EXCEPT !.YOffset = Max(@ - (vp.Height \div 2), 0)]
HalfViewDown(vp) ==
    IF vp.YOffset >= maxYOffset(vp) THEN vp
    ELSE [vp EXCEPT !.YOffset = Min(@ + (vp.Height \div 2), maxYOffset(vp))]
GotoTop(vp) == [vp EXCEPT !.YOffset = 0]
GotoBottom(vp) == [vp EXCEPT !.YOffset = maxYOffset(vp)]

SetContent(vp, n) ==
    LET v == [vp EXCEPT !.lines = n]
    IN IF v.YOffset > n - 1 THEN GotoBottom(v) ELSE v

\* Number of lines buildCommentDetail renders for a comment.
buildCommentDetail(comment) == IF comment = Nil THEN 1 ELSE 2

----------------------------------------------------------------------------
(* App *)

\* New and Init: the state after construction, with the first fetch issued.
InitApp ==
    /\ state = StateRepos
    /\ repoList = ListNew
    /\ prList = ListNew
    /\ commentList = ListNew
    /\ commentViewport = ViewportNew
    /\ currentRepo = Nil
    /\ currentPR = Nil
    /\ currentComment = Nil
    /\ loading = TRUE
    /\ err = ErrNil
    /\ width = 0
    /\ height = 0
    /\ copyStatus = ""
    /\ showReplies = FALSE
    /\ useSimplePrompt = FALSE
    /\ inflight = fetchRepos
    /\ timers = 0
    /\ quit = FALSE
    /\ updated = FALSE
    /\ inputs = 0
    /\ fetchedSinceErr = FALSE
    /\ ownTimer = FALSE

Init ==
    /\ InitApp
    /\ fnIn = Nil
    /\ fnOut = Nil

\* What View does to the App: in StateCommentDetail, past the loading and
\* error screens, it sets the viewport height when it differs.
viewportHeight == Max(height - fixedLines, 1)

ViewResizes ==
    /\ ~loading
    /\ err = ErrNil
    /\ state = StateCommentDetail
    /\ commentViewport.Height # viewportHeight

\* The runtime renders after Init and after every Update, so the next
\* message is handled only once View has run.  A View that changes nothing
\* is not a step of the model.
Running == ~quit /\ ~ViewResizes

\* An input of a bounded kind is received.
Input(bounded) ==
    IF bounded THEN inputs < MaxInputs /\ inputs' = inputs + 1
    ELSE UNCHANGED inputs

\* Update, lines 241-254, for a key: the current list or the viewport gets
\* the message.  The viewport binds none of the keys that reach it here.
DelegateKey(key) ==
    CASE state = StateRepos ->
            /\ repoList' = ListUpdateKey(repoList, key)
            /\ UNCHANGED <<prList, commentList, commentViewport>>
      [] state = StatePRs ->
            /\ prList' = ListUpdateKey(prList, key)
            /\ UNCHANGED <<repoList, commentList, commentViewport>>
      [] state = StateComments ->
            /\ commentList' = ListUpdateKey(commentList, key)
            /\ UNCHANGED <<repoList, prList, commentViewport>>
      [] OTHER ->
            UNCHANGED <<repoList, prList, commentList, commentViewport>>

\* Mutant: a quit key is ignored while a fetch is awaited.
Quit_unlessLoading ==
    /\ quit' = ~loading
    /\ UNCHANGED <<appVars, inflight, timers>>

\* Update, case "ctrl+c", "q".
Quit ==
    /\ quit' = TRUE
    /\ UNCHANGED <<appVars, inflight, timers>>

\* Mutant: Back from the detail view returns to the pull-request list.
backState_skip(from) ==
    CASE from = StatePRs -> StateRepos
      [] from = StateComments -> StatePRs
      [] from = StateCommentDetail -> StatePRs
      [] OTHER -> from

\* Mutant: Back from the comment list keeps the pull request.
backPR_keep(from) == currentPR

\* Mutant: Back from the comment list also drops the repository.
backRepo_more(from) ==
    IF from \in {StatePRs, StateComments} THEN Nil ELSE currentRepo

\* handleBack: the level Back leads to, and the reference it clears.
backState(from) ==
    CASE from = StatePRs -> StateRepos
      [] from = StateComments -> StatePRs
      [] from = StateCommentDetail -> StateComments
      [] OTHER -> from

backRepo(from) == IF from = StatePRs THEN Nil ELSE currentRepo
backPR(from) == IF from = StateComments THEN Nil ELSE currentPR
backComment(from) == IF from = StateCommentDetail THEN Nil ELSE currentComment

\* Mutant: leaving the comment list switches the reply setting off.
handleBack_resetReplies ==
    /\ state' = backState(state)
    /\ currentRepo' = backRepo(state)
    /\ currentPR' = backPR(state)
    /\ currentComment' = backComment(state)
    /\ showReplies' = (showReplies /\ state # StateComments)
    /\ UNCHANGED <<repoList, prList, commentList, commentViewport, loading,
                   err, width, height, copyStatus, useSimplePrompt, inflight,
                   timers, quit>>

handleBack ==
    /\ state' = backState(state)
    /\ currentRepo' = backRepo(state)
    /\ currentPR' = backPR(state)
    /\ currentComment' = backComment(state)
    /\ UNCHANGED <<repoList, prList, commentList, commentViewport, loading,
                   err, width, height, copyStatus, showReplies,
                   useSimplePrompt, inflight, timers, quit>>

\* Update, case "esc": a list whose filter is being typed gets the key,
\* otherwise handleBack.
Esc ==
    CASE state = StateRepos /\ SettingFilter(repoList) ->
            /\ repoList' = ListUpdateKey(repoList, "esc")
            /\ UNCHANGED <<state, prList, commentList, commentViewport,
                           currentRepo, currentPR, currentComment, loading,
                           err, width, height, copyStatus, showReplies,
                           useSimplePrompt, inflight, timers, quit>>
      [] state = StatePRs /\ SettingFilter(prList) ->
            /\ prList' = ListUpdateKey(prList, "esc")
            /\ UNCHANGED <<state, repoList, commentList, commentViewport,
                           currentRepo, currentPR, currentComment, loading,
                           err, width, height, copyStatus, showReplies,
                           useSimplePrompt, inflight, timers, quit>>
      [] state = StateComments /\ SettingFilter(commentList) ->
            /\ commentList' = ListUpdateKey(commentList, "esc")
            /\ UNCHANGED <<state, repoList, prList, commentViewport,
                           currentRepo, currentPR, currentComment, loading,
                           err, width, height, copyStatus, showReplies,
                           useSimplePrompt, inflight, timers, quit>>
      [] OTHER -> handleBack

\* Mutant: the detail viewport height is not clamped.
enterViewport_noclamp(selected) ==
    SetContent([commentViewport EXCEPT
                    !.Width = width - 4,
                    !.Height = height - fixedLines],
               buildCommentDetail(selected))

\* handleEnter, StateComments: the viewport sized for the detail view and
\* given the rendered comment.
enterViewport(selected) ==
    SetContent([commentViewport EXCEPT
                    !.Width = width - 4,
                    !.Height = Max(height - fixedLines, 1)],
               buildCommentDetail(selected))

\* handleEnter.  The type assertion on the selected item panics when the
\* item is of another kind, which ends the program.
handleEnter ==
    LET selected == CASE state = StateRepos -> SelectedItem(repoList)
                      [] state = StatePRs -> SelectedItem(prList)
                      [] state = StateComments -> SelectedItem(commentList)
                      [] OTHER -> Nil
        expected == CASE state = StateRepos -> "repo"
                      [] state = StatePRs -> "pr"
                      [] OTHER -> "comment"
    IN
    CASE selected # Nil /\ selected.kind # expected ->
            /\ quit' = TRUE
            /\ UNCHANGED <<appVars, inflight, timers>>
      [] selected # Nil /\ selected.kind = expected /\ state = StateRepos ->
            /\ BagCardinality(inflight) < MaxInflight
            /\ currentRepo' = selected
            /\ state' = StatePRs
            /\ loading' = TRUE
            /\ inflight' = inflight (+) fetchPRs(selected)
            /\ UNCHANGED <<repoList, prList, commentList, commentViewport,
                           currentPR, currentComment, err, width, height,
                           copyStatus, showReplies, useSimplePrompt, timers, quit>>
      [] selected # Nil /\ selected.kind = expected /\ state = StatePRs ->
            /\ BagCardinality(inflight) < MaxInflight
            /\ currentPR' = selected
            /\ state' = StateComments
            /\ loading' = TRUE
            /\ inflight' = inflight (+) fetchComments(currentRepo, selected)
            /\ UNCHANGED <<repoList, prList, commentList, commentViewport,
                           currentRepo, currentComment, err, width, height,
                           copyStatus, showReplies, useSimplePrompt, timers, quit>>
      [] selected # Nil /\ selected.kind = expected /\ state = StateComments ->
            /\ currentComment' = selected
            /\ state' = StateCommentDetail
            /\ commentViewport' = enterViewport(selected)
            /\ UNCHANGED <<repoList, prList, commentList, currentRepo,
                           currentPR, loading, err, width, height, copyStatus,
                           showReplies, useSimplePrompt, inflight, timers, quit>>
      [] OTHER ->
            UNCHANGED <<appVars, inflight, timers, quit>>

\* Mutant: a failed copy sets the status and schedules no timer.
handleCopyPrompt_noTimerOnFailure ==
    /\ currentRepo # Nil /\ currentPR # Nil /\ currentComment # Nil
    /\ timers < MaxTimers
    /\ \E copied \in BOOLEAN :
           /\ copyStatus' =
                  IF ~copied THEN "Copy failed"
                  ELSE IF useSimplePrompt
                       THEN "Simple prompt copied to clipboard!"
                       ELSE "Full prompt copied to clipboard!"
           /\ timers' = IF copied THEN timers + 1 ELSE timers
    /\ UNCHANGED <<state, repoList, prList, commentList, commentViewport,
                   currentRepo, currentPR, currentComment, loading, err,
                   width, height, showReplies, useSimplePrompt, inflight, quit>>

\* handleCopyPrompt; clipboard.Copy succeeds or fails.
handleCopyPrompt ==
    IF currentRepo = Nil \/ currentPR = Nil \/ currentComment = Nil
    THEN /\ copyStatus' = "Error: Missing context for prompt generation"
         /\ UNCHANGED <<state, repoList, prList, commentList, commentViewport,
                        currentRepo, currentPR, currentComment, loading, err,
                        width, height, showReplies, useSimplePrompt, inflight,
                        timers, quit>>
    ELSE /\ timers < MaxTimers
         /\ \E copied \in BOOLEAN :
                copyStatus' =
                    IF ~copied THEN "Copy failed"
                    ELSE IF useSimplePrompt
                         THEN "Simple prompt copied to clipboard!"
                         ELSE "Full prompt copied to clipboard!"
         /\ timers' = timers + 1
         /\ UNCHANGED <<state, repoList, prList, commentList, commentViewport,
                        currentRepo, currentPR, currentComment, loading, err,
                        width, height, showReplies, useSimplePrompt, inflight, quit>>

\* Mutant: the toggle sets its status and schedules no timer.
handleTogglePromptMode_noTimer ==
    /\ useSimplePrompt' = ~useSimplePrompt
    /\ copyStatus' = IF useSimplePrompt' THEN "Switched to Simple prompt mode"
                     ELSE "Switched to Full prompt mode"
    /\ UNCHANGED <<state, repoList, prList, commentList, commentViewport,
                   currentRepo, currentPR, currentComment, loading, err,
                   width, height, showReplies, inflight, timers, quit>>

\* Mutant: the toggle always selects the simple mode.
handleTogglePromptMode_simple ==
    /\ timers < MaxTimers
    /\ useSimplePrompt' = TRUE
    /\ copyStatus' = "Switched to Simple prompt mode"
    /\ timers' = timers + 1
    /\ UNCHANGED <<state, repoList, prList, commentList, commentViewport,
                   currentRepo, currentPR, currentComment, loading, err,
                   width, height, showReplies, inflight, quit>>

\* handleTogglePromptMode
handleTogglePromptMode ==
    /\ timers < MaxTimers
    /\ useSimplePrompt' = ~useSimplePrompt
    /\ copyStatus' = IF useSimplePrompt' THEN "Switched to Simple prompt mode"
                     ELSE "Switched to Full prompt mode"
    /\ timers' = timers + 1
    /\ UNCHANGED <<state, repoList, prList, commentList, commentViewport,
                   currentRepo, currentPR, currentComment, loading, err,
                   width, height, showReplies, inflight, quit>>

\* Mutant: the toggle re-filters the list it holds and fetches nothing.
handleToggleReplies_local ==
    /\ showReplies' = ~showReplies
    /\ commentList' =
           SetItems(commentList,
                    SelectSeq(commentList.items,
                              LAMBDA c : showReplies' \/ c.inReplyTo = 0))
    /\ UNCHANGED <<state, repoList, prList, commentViewport, currentRepo,
                   currentPR, currentComment, loading, err, width, height,
                   copyStatus, useSimplePrompt, inflight, timers, quit>>

\* handleToggleReplies
handleToggleReplies ==
    /\ BagCardinality(inflight) < MaxInflight
    /\ showReplies' = ~showReplies
    /\ loading' = TRUE
    /\ inflight' = inflight (+) fetchComments(currentRepo, currentPR)
    /\ UNCHANGED <<state, repoList, prList, commentList, commentViewport,
                   currentRepo, currentPR, currentComment, err, width, height,
                   copyStatus, useSimplePrompt, timers, quit>>

\* Mutant: a scroll key also dismisses the status message.
Scroll_dismissStatus(key) ==
    /\ commentViewport' =
           CASE key \in {"up", "k"} -> LineUp(commentViewport, 1)
             [] key \in {"down", "j"} -> LineDown(commentViewport, 1)
             [] key \in {"pgup", "h"} -> HalfViewUp(commentViewport)
             [] key \in {"pgdown", "l"} -> HalfViewDown(commentViewport)
             [] key \in {"home", "g"} -> GotoTop(commentViewport)
             [] OTHER -> GotoBottom(commentViewport)
    /\ copyStatus' = ""
    /\ UNCHANGED <<state, repoList, prList, commentList, currentRepo,
                   currentPR, currentComment, loading, err, width, height,
                   showReplies, useSimplePrompt, inflight, timers, quit>>

\* Update, the scroll keys in StateCommentDetail.
Scroll(key) ==
    /\ commentViewport' =
           CASE key \in {"up", "k"} -> LineUp(commentViewport, 1)
             [] key \in {"down", "j"} -> LineDown(commentViewport, 1)
             [] key \in {"pgup", "h"} -> HalfViewUp(commentViewport)
             [] key \in {"pgdown", "l"} -> HalfViewDown(commentViewport)
             [] key \in {"home", "g"} -> GotoTop(commentViewport)
             [] OTHER -> GotoBottom(commentViewport)
    /\ UNCHANGED <<state, repoList, prList, commentList, currentRepo,
                   currentPR, currentComment, loading, err, width, height,
                   copyStatus, showReplies, useSimplePrompt, inflight, timers, quit>>

ScrollKeys == {"up", "k", "down", "j", "pgup", "h", "pgdown", "l",
               "home", "g", "end", "G"}

\* The keys counted against MaxInputs.
BoundedKey(key) ==
    key \notin {"ctrl+c", "q", "esc", "enter", "p", "tab"}

\* Update, case tea.KeyMsg.
KeyMsg(key) ==
    /\ Running
    /\ UNCHANGED fnVars
    /\ updated' = TRUE
    /\ Input(BoundedKey(key))
    /\ CASE key \in {"ctrl+c", "q"} -> Quit
         [] key = "esc" -> Esc
         [] key = "enter" -> handleEnter
         [] key = "c" /\ state = StateCommentDetail -> handleCopyPrompt
         [] key = "t" /\ state = StateCommentDetail -> handleTogglePromptMode
         [] key = "r" /\ state = StateComments -> handleToggleReplies
         [] key \in ScrollKeys /\ state = StateCommentDetail -> Scroll(key)
         [] OTHER ->
                /\ DelegateKey(key)
                /\ UNCHANGED <<state, currentRepo, currentPR, currentComment,
                               loading, err, width, height, copyStatus,
                               showReplies, useSimplePrompt, inflight, timers,
                               quit>>
    /\ fetchedSinceErr' =
           IF BagCardinality(inflight') > BagCardinality(inflight)
           THEN err # ErrNil
           ELSE fetchedSinceErr
    /\ ownTimer' = IF timers' > timers THEN TRUE
                   ELSE IF copyStatus' # copyStatus THEN FALSE
                   ELSE ownTimer

\* Update, case tea.WindowSizeMsg.
WindowSizeMsg(w, h) ==
    /\ Running
    /\ UNCHANGED <<fnVars, ownTimer>>
    /\ updated' = TRUE
    /\ Input(TRUE)
    /\ UNCHANGED fetchedSinceErr
    /\ width' = w
    /\ height' = h
    /\ repoList' = SetSize(repoList, w - 4, h - 4)
    /\ prList' = SetSize(prList, w - 4, h - 4)
    /\ commentList' = SetSize(commentList, w - 4, h - 7)
    /\ commentViewport' =
           [commentViewport EXCEPT
                !.Width = w - 4,
                !.Height = IF copyStatus # "" THEN h - 5 - 2 ELSE h - 5]
    /\ UNCHANGED <<state, currentRepo, currentPR, currentComment, loading,
                   err, copyStatus, showReplies, useSimplePrompt, inflight,
                   timers, quit>>

\* Update, case ghclient.ReposMsg: the answer to a FetchRepos command.
ReposMsg(cmd, failed) ==
    /\ Running
    /\ UNCHANGED <<fnVars, ownTimer>>
    /\ BagIn(cmd, inflight) /\ cmd.kind = "repos"
    /\ inflight' = inflight (-) SetToBag({cmd})
    /\ updated' = TRUE
    /\ Input(failed)
    /\ fetchedSinceErr' = IF failed THEN FALSE ELSE fetchedSinceErr
    /\ loading' = FALSE
    /\ IF failed
       THEN /\ err' = ErrFetch
            /\ UNCHANGED repoList
       ELSE /\ repoList' = SetItems(repoList, FetchReposResult)
            /\ UNCHANGED err
    /\ UNCHANGED <<state, prList, commentList, commentViewport, currentRepo,
                   currentPR, currentComment, width, height, copyStatus,
                   showReplies, useSimplePrompt, timers, quit>>

\* Mutant: a result fetched for another repository than the current one is
\* dropped.
PRsMsg_dropStale(cmd, failed) ==
    /\ Running
    /\ UNCHANGED <<fnVars, ownTimer>>
    /\ BagIn(cmd, inflight) /\ cmd.kind = "prs"
    /\ inflight' = inflight (-) SetToBag({cmd})
    /\ updated' = TRUE
    /\ Input(failed)
    /\ fetchedSinceErr' = IF failed THEN FALSE ELSE fetchedSinceErr
    /\ loading' = FALSE
    /\ IF failed
       THEN /\ err' = ErrFetch
            /\ UNCHANGED prList
       ELSE /\ prList' = IF cmd.repo = currentRepo
                         THEN SetItems(prList, FetchPRsResult(cmd.repo))
                         ELSE prList
            /\ UNCHANGED err
    /\ UNCHANGED <<state, repoList, commentList, commentViewport, currentRepo,
                   currentPR, currentComment, width, height, copyStatus,
                   showReplies, useSimplePrompt, timers, quit>>

\* Update, case ghclient.PRsMsg: the answer to a FetchPRs command.
PRsMsg(cmd, failed) ==
    /\ Running
    /\ UNCHANGED <<fnVars, ownTimer>>
    /\ BagIn(cmd, inflight) /\ cmd.kind = "prs"
    /\ inflight' = inflight (-) SetToBag({cmd})
    /\ updated' = TRUE
    /\ Input(failed)
    /\ fetchedSinceErr' = IF failed THEN FALSE ELSE fetchedSinceErr
    /\ loading' = FALSE
    /\ IF failed
       THEN /\ err' = ErrFetch
            /\ UNCHANGED prList
       ELSE /\ prList' = SetItems(prList, FetchPRsResult(cmd.repo))
            /\ UNCHANGED err
    /\ UNCHANGED <<state, repoList, commentList, commentViewport, currentRepo,
                   currentPR, currentComment, width, height, copyStatus,
                   showReplies, useSimplePrompt, timers, quit>>

\* Mutant: with showReplies on only the replies are kept.
replyFilter_swap(show, comments) ==
    SelectSeq(comments, LAMBDA c : IF show THEN c.inReplyTo # 0
                                   ELSE c.inReplyTo = 0)

\* The reply filter of the CommentsMsg case.
replyFilter(show, comments) ==
    SelectSeq(comments, LAMBDA c : show \/ c.inReplyTo = 0)

\* Mutant: replies are kept whatever showReplies is.
filteredComments_all(comments) == comments

filteredComments(comments) == replyFilter(showReplies, comments)

\* Update, case ghclient.CommentsMsg: the answer to a FetchComments command.
CommentsMsg(cmd, failed) ==
    /\ Running
    /\ UNCHANGED <<fnVars, ownTimer>>
    /\ BagIn(cmd, inflight) /\ cmd.kind = "comments"
    /\ inflight' = inflight (-) SetToBag({cmd})
    /\ updated' = TRUE
    /\ Input(failed)
    /\ fetchedSinceErr' = IF failed THEN FALSE ELSE fetchedSinceErr
    /\ loading' = FALSE
    /\ IF failed
       THEN /\ err' = ErrFetch
            /\ UNCHANGED commentList
       ELSE /\ commentList' =
                   SetItems(commentList,
                            filteredComments(FetchCommentsResult(cmd.repo, cmd.pr)))
            /\ UNCHANGED err
    /\ UNCHANGED <<state, repoList, prList, commentViewport, currentRepo,
                   currentPR, currentComment, width, height, copyStatus,
                   showReplies, useSimplePrompt, timers, quit>>

\* Update, case clearCopyStatusMsg: a tea.Tick timer fired.
ClearCopyStatusMsg ==
    /\ Running
    /\ UNCHANGED fnVars
    /\ timers > 0
    /\ timers' = timers - 1
    /\ \/ ownTimer /\ ownTimer' = FALSE
       \/ timers > (IF ownTimer THEN 1 ELSE 0) /\ ownTimer' = ownTimer
    /\ updated' = TRUE
    /\ UNCHANGED <<inputs, fetchedSinceErr>>
    /\ copyStatus' = ""
    /\ UNCHANGED <<state, repoList, prList, commentList, commentViewport,
                   currentRepo, currentPR, currentComment, loading, err,
                   width, height, showReplies, useSimplePrompt, inflight, quit>>

\* Mutant: a stored error does not replace the current level's screen.
ViewFrame_noErrorScreen ==
    IF loading THEN [screen |-> "loading", status |-> ""]
    ELSE CASE state = StateRepos -> [screen |-> "repos", status |-> copyStatus]
           [] state = StatePRs -> [screen |-> "prs", status |-> copyStatus]
           [] state = StateComments -> [screen |-> "comments", status |-> copyStatus]
           [] OTHER -> [screen |-> "detail", status |-> copyStatus]

\* The frame View returns.
ViewFrame ==
    IF loading THEN [screen |-> "loading", status |-> ""]
    ELSE IF err # ErrNil THEN [screen |-> "error", status |-> ""]
    ELSE CASE state = StateRepos -> [screen |-> "repos", status |-> copyStatus]
           [] state = StatePRs -> [screen |-> "prs", status |-> copyStatus]
           [] state = StateComments -> [screen |-> "comments", status |-> copyStatus]
           [] OTHER -> [screen |-> "detail", status |-> copyStatus]

\* View, when it changes the App.
View ==
    /\ ~quit
    /\ UNCHANGED <<fnVars, ownTimer>>
    /\ ViewResizes
    /\ updated' = TRUE
    /\ commentViewport' = [commentViewport EXCEPT !.Height = viewportHeight]
    /\ UNCHANGED <<state, repoList, prList, commentList, currentRepo,
                   currentPR, currentComment, loading, err, width, height,
                   copyStatus, showReplies, useSimplePrompt, inflight, timers,
                   quit, inputs, fetchedSinceErr>>

Next ==
    \/ View
    \/ \E key \in Keys : KeyMsg(key)
    \/ \E size \in Sizes : WindowSizeMsg(size[1], size[2])
    \/ \E cmd \in BagToSet(inflight), failed \in BOOLEAN : ReposMsg(cmd, failed)
    \/ \E cmd \in BagToSet(inflight), failed \in BOOLEAN : PRsMsg(cmd, failed)
    \/ \E cmd \in BagToSet(inflight), failed \in BOOLEAN : CommentsMsg(cmd, failed)
    \/ ClearCopyStatusMsg

Spec == Init /\ [][Next]_vars

\* The runtime delivers every pending timer message and renders after
\* every Update.
FairSpec == Spec /\ WF_vars(ClearCopyStatusMsg) /\ WF_vars(View)

\* The commands the program can issue on the modelled platform.
Commands ==
    {FetchReposCmd}
    \cup {FetchPRsCmd(PlatformRepos[i]) : i \in DOMAIN PlatformRepos}
    \cup {FetchCommentsCmd(PlatformRepos[i], pr) :
              i \in DOMAIN PlatformRepos,
              pr \in UNION {{PlatformPRs(PlatformRepos[j])[k] :
                                 k \in DOMAIN PlatformPRs(PlatformRepos[j])} :
                                j \in DOMAIN PlatformRepos}}

\* The result message of one command reaches Update.
Deliver(cmd) ==
    \E failed \in BOOLEAN :
        \/ ReposMsg(cmd, failed)
        \/ PRsMsg(cmd, failed)
        \/ CommentsMsg(cmd, failed)

\* Every command runs in a goroutine of its own under a 30 s timeout and
\* sends one message, which the event loop handles; a render follows every
\* Update.
DeliverySpec ==
    Spec /\ WF_vars(View) /\ WF_vars(\E cmd \in Commands : Deliver(cmd))

----------------------------------------------------------------------------
(* The reply filter applied to comment sequences of bounded length *)

MaxComments == 3

CommentKinds ==
    {Comment(1, 2, i, reply, 1) : i \in 1..2, reply \in 0..1}

CommentSeqs == UNION {[1..n -> CommentKinds] : n \in 0..MaxComments}

FilterInit ==
    /\ InitApp
    /\ fnIn \in CommentSeqs
    /\ fnOut = Nil

\* The CommentsMsg filter run on fnIn with showReplies off and on.
ApplyReplyFilter ==
    /\ fnOut = Nil
    /\ fnOut' = [hidden |-> replyFilter(FALSE, fnIn),
                 shown |-> replyFilter(TRUE, fnIn)]
    /\ UNCHANGED <<appVars, inflight, timers, quit, updated, inputs,
                   fetchedSinceErr, ownTimer, fnIn>>

FilterNext == ApplyReplyFilter

FilterSpec == FilterInit /\ [][FilterNext]_vars

----------------------------------------------------------------------------
(* The client's sorts applied to what the platform may list *)

MaxPRs == 4

\* Pull requests of one repository with distinct numbers, in any order.
PRSeqs ==
    UNION {{[i \in 1..n |-> PR(1, f[i])] :
                f \in {g \in [1..n -> 1..MaxPRs] :
                          \A i, j \in 1..n : i # j => g[i] # g[j]}} :
           n \in 0..MaxPRs}

\* Comments of one pull request, with and without an update timestamp.
SortCommentKinds ==
    {Comment(1, 2, i, reply, upd) : i \in 1..2, reply \in 0..1, upd \in 0..2}

SortCommentSeqs == UNION {[1..n -> SortCommentKinds] : n \in 0..MaxComments}

SortInit ==
    /\ InitApp
    /\ fnIn \in {[fn |-> "FetchPRs", arg |-> a] : a \in PRSeqs}
            \cup {[fn |-> "FetchComments", arg |-> a] : a \in SortCommentSeqs}
    /\ fnOut = Nil

\* FetchPRs on the listed pull requests, and the list PRsMsg makes of it.
ApplyFetchPRs ==
    /\ fnOut = Nil
    /\ fnIn.fn = "FetchPRs"
    /\ fnOut' = [delivered |-> SortPRs(fnIn.arg),
                 list |-> SetItems(ListNew, SortPRs(fnIn.arg)).items]
    /\ UNCHANGED <<appVars, inflight, timers, quit, updated, inputs,
                   fetchedSinceErr, ownTimer, fnIn>>

\* FetchComments on the listed comments, and the lists CommentsMsg makes of
\* it with showReplies off and on.
ApplyFetchComments ==
    /\ fnOut = Nil
    /\ fnIn.fn = "FetchComments"
    /\ fnOut' = [delivered |-> SortComments(fnIn.arg),
                 hidden |-> SetItems(ListNew,
                                     replyFilter(FALSE, SortComments(fnIn.arg))).items,
                 shown |-> SetItems(ListNew,
                                    replyFilter(TRUE, SortComments(fnIn.arg))).items]
    /\ UNCHANGED <<appVars, inflight, timers, quit, updated, inputs,
                   fetchedSinceErr, ownTimer, fnIn>>

SortNext == ApplyFetchPRs \/ ApplyFetchComments

SortSpec == SortInit /\ [][SortNext]_vars

(***************************************************************************)
(* Item descriptions and prompt line ranges (internal/ui/items.go,         *)
(* internal/prompt/generator.go) applied to bounded records                *)
(***************************************************************************)

\* strconv of a non-negative int, as fmt's %d prints it.
Digits == <<"0", "1", "2", "3", "4", "5", "6", "7", "8", "9">>

RECURSIVE Itoa(_)
Itoa(n) ==
    IF n < 10 THEN Digits[n + 1]
    ELSE Itoa(n \div 10) \o Digits[(n % 10) + 1]

\* A two-digit field of a time layout ("01", "02", "15", "04").
Pad2(n) == IF n < 10 THEN "0" \o Itoa(n) ELSE Itoa(n)

Time(y, mo, d, h, mi) ==
    [year |-> y, month |-> mo, day |-> d, hour |-> h, minute |-> mi]

\* time.Format("2006-01-02") for a four-digit year.
FormatDate(t) == Itoa(t.year) \o "-" \o Pad2(t.month) \o "-" \o Pad2(t.day)

\* time.Format("2006-01-02 15:04").
FormatMinute(t) ==
    FormatDate(t) \o " " \o Pad2(t.hour) \o ":" \o Pad2(t.minute)

\* The separator of the description segments, U+2022 in the source.
Bullet == "*"

\* RepoItem.Description.
RepoItemDescription(r) ==
    LET desc == IF r.description = "" THEN "No description"
                ELSE r.description
        lang == r.language
        upd == IF r.updatedAt # Nil THEN FormatDate(r.updatedAt) ELSE ""
    IN  IF lang # "" /\ upd # ""
        THEN desc \o " " \o Bullet \o " " \o lang \o " " \o Bullet
                  \o " Updated " \o upd
        ELSE IF lang # "" THEN desc \o " " \o Bullet \o " " \o lang
        ELSE IF upd # "" THEN desc \o " " \o Bullet \o " Updated " \o upd
        ELSE desc

\* CommentItem.Description, the time segment.
timeInfo(c) ==
    LET created == IF c.createdAt # Nil THEN FormatMinute(c.createdAt)
                   ELSE ""
    IN  IF c.updatedAt # Nil /\ c.createdAt # Nil
             /\ FormatMinute(c.updatedAt) # created
        THEN created \o " (updated " \o FormatMinute(c.updatedAt) \o ")"
        ELSE created

\* Mutant: a start line is printed as a range even when it equals the line.
fileInfo_rangeWheneverStart(c) ==
    IF c.path = "" THEN ""
    ELSE " " \o Bullet \o " " \o c.path
         \o (IF c.line = 0 THEN ""
             ELSE IF c.startLine # 0
             THEN " L" \o Itoa(c.startLine) \o "-" \o Itoa(c.line)
             ELSE " L" \o Itoa(c.line))
         \o (IF c.originalLine = 0 \/ c.originalLine = c.line THEN ""
             ELSE IF c.originalStartLine # 0
                     /\ c.originalStartLine # c.originalLine
             THEN " (orig L" \o Itoa(c.originalStartLine) \o "-"
                      \o Itoa(c.originalLine) \o ")"
             ELSE " (orig L" \o Itoa(c.originalLine) \o ")")

\* CommentItem.Description, the file and line segment.
fileInfo(c) ==
    IF c.path = "" THEN ""
    ELSE " " \o Bullet \o " " \o c.path
         \o (IF c.line = 0 THEN ""
             ELSE IF c.startLine # 0 /\ c.startLine # c.line
             THEN " L" \o Itoa(c.startLine) \o "-" \o Itoa(c.line)
             ELSE " L" \o Itoa(c.line))
         \o (IF c.originalLine = 0 \/ c.originalLine = c.line THEN ""
             ELSE IF c.originalStartLine # 0
                     /\ c.originalStartLine # c.originalLine
             THEN " (orig L" \o Itoa(c.originalStartLine) \o "-"
                      \o Itoa(c.originalLine) \o ")"
             ELSE " (orig L" \o Itoa(c.originalLine) \o ")")

\* CommentItem.Description.
CommentItemDescription(c) ==
    "by " \o c.author \o " " \o Bullet \o " " \o timeInfo(c) \o fileInfo(c)

\* Generator.buildTemplateData, the two line ranges of the comment data.
buildTemplateData(c) ==
    [LineRange |->
         IF c.line = 0 THEN ""
         ELSE IF c.startLine # 0 /\ c.startLine # c.line
         THEN "L" \o Itoa(c.startLine) \o "-" \o Itoa(c.line)
         ELSE "L" \o Itoa(c.line),
     OriginalLineRange |->
         IF c.originalLine = 0 \/ c.originalLine = c.line THEN ""
         ELSE IF c.originalStartLine # 0
                 /\ c.originalStartLine # c.originalLine
         THEN "L" \o Itoa(c.originalStartLine) \o "-" \o Itoa(c.originalLine)
         ELSE "L" \o Itoa(c.originalLine)]

\* Line numbers a review comment may carry; 0 is an absent field.
LineValues == {0, 8, 10, 12, 15, 20}

FormatTimes == {Time(2024, 1, 2, 15, 4), Time(2025, 11, 30, 9, 45)}

FormatComments ==
    [path : {"", "a.go"}, line : LineValues, startLine : LineValues,
     originalLine : LineValues, originalStartLine : LineValues,
     author : {"octo"}, createdAt : {Nil, Time(2024, 1, 2, 15, 4)},
     updatedAt : {Nil}]
    \cup [path : {"a.go"}, line : {12}, startLine : {0},
          originalLine : {0}, originalStartLine : {0}, author : {"octo"},
          createdAt : FormatTimes \cup {Nil},
          updatedAt : FormatTimes \cup {Nil}]

FormatRepos ==
    [description : {"", "A tool"}, language : {"", "Go"},
     updatedAt : FormatTimes \cup {Nil}]

FormatInit ==
    /\ InitApp
    /\ fnIn \in {[fn |-> "CommentItem.Description", arg |-> c] :
                     c \in FormatComments}
            \cup {[fn |-> "buildTemplateData", arg |-> c] :
                      c \in FormatComments}
            \cup {[fn |-> "RepoItem.Description", arg |-> r] :
                      r \in FormatRepos}
    /\ fnOut = Nil

ApplyCommentDescription ==
    /\ fnOut = Nil
    /\ fnIn.fn = "CommentItem.Description"
    /\ fnOut' = [description |-> CommentItemDescription(fnIn.arg)]
    /\ UNCHANGED <<appVars, inflight, timers, quit, updated, inputs,
                   fetchedSinceErr, ownTimer, fnIn>>

ApplyBuildTemplateData ==
    /\ fnOut = Nil
    /\ fnIn.fn = "buildTemplateData"
    /\ fnOut' = buildTemplateData(fnIn.arg)
    /\ UNCHANGED <<appVars, inflight, timers, quit, updated, inputs,
                   fetchedSinceErr, ownTimer, fnIn>>

ApplyRepoDescription ==
    /\ fnOut = Nil
    /\ fnIn.fn = "RepoItem.Description"
    /\ fnOut' = [description |-> RepoItemDescription(fnIn.arg)]
    /\ UNCHANGED <<appVars, inflight, timers, quit, updated, inputs,
                   fetchedSinceErr, ownTimer, fnIn>>

FormatNext ==
    ApplyCommentDescription \/ ApplyBuildTemplateData \/ ApplyRepoDescription

FormatSpec == FormatInit /\ [][FormatNext]_vars

----------------------------------------------------------------------------
(* Properties *)

lists == <<repoList, prList, commentList>>
refs == <<currentRepo, currentPR, currentComment>>
settings == <<showReplies, useSimplePrompt>>

\* The list of the current level (none in the detail view).
CurrentListFilter ==
    CASE state = StateRepos -> repoList.filterState
      [] state = StatePRs -> prList.filterState
      [] state = StateComments -> commentList.filterState
      [] OTHER -> "unfiltered"

\* C1: every step that changes the navigation state moves it to an
\* adjacent level.
C1_AdjacentLevels ==
    [][state' # state => state' \in {state - 1, state + 1}]_vars

C1_Witness ==
    /\ state = StateRepos
    /\ commentViewport.lines > 0

\* C2: a selection reference is set exactly when the navigation state is at
\* or below its level.
C2_RefsMatchLevel ==
    /\ currentRepo # Nil <=>
           state \in {StatePRs, StateComments, StateCommentDetail}
    /\ currentPR # Nil <=> state \in {StateComments, StateCommentDetail}
    /\ currentComment # Nil <=> state = StateCommentDetail

C2_Witness ==
    /\ state = StatePRs
    /\ currentRepo # Nil
    /\ commentList.items # <<>>

\* C3: the state after New and Init: Repositories, no selection, loading,
\* both settings off, no error, and one fetch-repositories request issued.
C3_InitialState ==
    ~updated =>
        /\ state = StateRepos
        /\ currentRepo = Nil /\ currentPR = Nil /\ currentComment = Nil
        /\ loading
        /\ ~showReplies /\ ~useSimplePrompt
        /\ err = ErrNil
        /\ inflight = SetToBag({FetchReposCmd})

C3_Witness == ~updated /\ BagCardinality(inflight) = 1

\* C4: Enter on a selected repository (pull request) sets the reference,
\* moves one level down, sets loading and issues exactly one fetch for the
\* new context, whether or not that level's list was loaded before.
C4_EnterFetches ==
    [][/\ (state = StateRepos /\ SelectedItem(repoList) # Nil /\ KeyMsg("enter")) =>
            /\ currentRepo' = SelectedItem(repoList)
            /\ state' = StatePRs
            /\ loading'
            /\ inflight' = inflight (+) SetToBag({FetchPRsCmd(SelectedItem(repoList))})
       /\ (state = StatePRs /\ SelectedItem(prList) # Nil /\ KeyMsg("enter")) =>
            /\ currentPR' = SelectedItem(prList)
            /\ state' = StateComments
            /\ loading'
            /\ inflight' = inflight (+)
                   SetToBag({FetchCommentsCmd(currentRepo, SelectedItem(prList))})
      ]_vars

C4_Witness ==
    /\ state = StatePRs
    /\ loading
    /\ prList.items # <<>>
    /\ inflight = SetToBag({FetchPRsCmd(currentRepo)})

\* C5: Enter on a selected comment opens the detail view with the viewport
\* height max(height - 6, 1) and width width - 4, issues no fetch and keeps
\* loading.
C5_EnterDetail ==
    [][(state = StateComments /\ SelectedItem(commentList) # Nil /\ KeyMsg("enter")) =>
            /\ currentComment' = SelectedItem(commentList)
            /\ state' = StateCommentDetail
            /\ commentViewport'.Height = Max(height - 6, 1)
            /\ commentViewport'.Width = width - 4
            /\ inflight' = inflight
            /\ loading' = loading
      ]_vars

C5_Witness ==
    /\ state = StateCommentDetail
    /\ currentComment # Nil
    /\ commentViewport.Height = 1
    /\ commentViewport.Width = -4

\* C6: Esc in a non-root state with no filter on the current list moves one
\* level up and clears the reference of the level left; no fetch, and the
\* other references, the lists, loading, the error and the settings stay.
C6_BackFrame ==
    [][(state # StateRepos /\ CurrentListFilter = "unfiltered" /\ KeyMsg("esc")) =>
            /\ state' = state - 1
            /\ currentComment' =
                   IF state = StateCommentDetail THEN Nil ELSE currentComment
            /\ currentPR' = IF state = StateComments THEN Nil ELSE currentPR
            /\ currentRepo' = IF state = StatePRs THEN Nil ELSE currentRepo
            /\ inflight' = inflight
            /\ UNCHANGED <<lists, loading, err, settings>>
      ]_vars

C6_Witness ==
    /\ state = StateComments
    /\ currentComment = Nil
    /\ currentPR # Nil
    /\ commentViewport.lines > 0

\* C7: Esc with a filter on the current list, typed or applied, clears the
\* filter and leaves the navigation state and the references alone.
C7_EscClearsFilter ==
    [][(CurrentListFilter # "unfiltered" /\ KeyMsg("esc")) =>
            /\ CurrentListFilter' = "unfiltered"
            /\ UNCHANGED <<state, refs>>
      ]_vars

\* C8: a successful fetch result clears loading and replaces the items of
\* its level's list by the result (comments after the reply filter); the
\* other two lists stay.
C8_ResultReplacesList ==
    [][\A cmd \in BagToSet(inflight) :
            /\ ReposMsg(cmd, FALSE) =>
                    /\ ~loading'
                    /\ repoList'.items = FetchReposResult
                    /\ UNCHANGED <<prList, commentList>>
            /\ PRsMsg(cmd, FALSE) =>
                    /\ ~loading'
                    /\ prList'.items = FetchPRsResult(cmd.repo)
                    /\ UNCHANGED <<repoList, commentList>>
            /\ CommentsMsg(cmd, FALSE) =>
                    /\ ~loading'
                    /\ commentList'.items =
                           SelectSeq(FetchCommentsResult(cmd.repo, cmd.pr),
                                     LAMBDA c : showReplies \/ c.inReplyTo = 0)
                    /\ UNCHANGED <<repoList, prList>>
      ]_vars

C8_Witness ==
    /\ state = StateComments
    /\ ~loading
    /\ showReplies
    /\ Len(commentList.items) = 2

\* C9: a failed fetch result clears loading, stores the error and changes
\* no list; while the error is stored and loading is off, View returns the
\* error screen.
C9_ErrorScreen ==
    /\ [][\A cmd \in BagToSet(inflight) :
              (ReposMsg(cmd, TRUE) \/ PRsMsg(cmd, TRUE) \/ CommentsMsg(cmd, TRUE)) =>
                    /\ ~loading'
                    /\ err' # ErrNil
                    /\ UNCHANGED lists
         ]_vars
    /\ []((err # ErrNil /\ ~loading) => ViewFrame.screen = "error")

C9_Witness ==
    /\ state = StatePRs
    /\ err # ErrNil
    /\ ~loading
    /\ repoList.items # <<>>
    /\ ViewFrame.screen = "error"

\* The items, cursor and filter of a list.
ListContent(m) ==
    <<m.items, m.index, m.filterState, m.filterValue, m.filteredItems>>

\* C10: once an error is stored, no list's items, cursor or filter and no
\* viewport state changes until a fetch is issued.
C10_FrozenAfterError ==
    [][(err # ErrNil /\ ~fetchedSinceErr) =>
            UNCHANGED <<ListContent(repoList), ListContent(prList),
                        ListContent(commentList), commentViewport>>
      ]_vars

\* C11: after a stored error, once the fetch issued by re-entering the
\* current level completes without error, the error display is gone and the
\* level's list is displayed.
C11_ErrorRecoverable ==
    [][\A cmd \in BagToSet(inflight) :
            (/\ err # ErrNil
             /\ fetchedSinceErr
             /\ inflight = SetToBag({cmd})
             /\ \/ state = StatePRs /\ cmd = FetchPRsCmd(currentRepo)
                                    /\ PRsMsg(cmd, FALSE)
                \/ state = StateComments
                        /\ cmd = FetchCommentsCmd(currentRepo, currentPR)
                        /\ CommentsMsg(cmd, FALSE))
            => ViewFrame'.screen = (IF state = StatePRs THEN "prs" ELSE "comments")
      ]_vars

\* Five comments of one pull request, the second and the fourth replies.
FiveComments ==
    <<Comment(1, 2, 1, 0, 5), Comment(1, 2, 2, 1, 4), Comment(1, 2, 3, 0, 3),
      Comment(1, 2, 4, 3, 2), Comment(1, 2, 5, 0, 1)>>

HasNoReplyTarget(c) == c.inReplyTo = 0

\* C12: a comments result received without error makes the comment list the
\* received comments without a reply target when showReplies is off, and all
\* of them when it is on, by the value of showReplies at receipt; five
\* comments with two replies give 3 and 5 entries.
C12_ReplyFilterAtReceipt ==
    /\ [][\A cmd \in BagToSet(inflight) :
              CommentsMsg(cmd, FALSE) =>
                  commentList'.items =
                      IF showReplies
                      THEN FetchCommentsResult(cmd.repo, cmd.pr)
                      ELSE SelectSeq(FetchCommentsResult(cmd.repo, cmd.pr),
                                     HasNoReplyTarget)
         ]_vars
    /\ [](Len(filteredComments(FiveComments)) = IF showReplies THEN 5 ELSE 3)

C12_Witness ==
    /\ state = StateComments
    /\ ~loading
    /\ ~showReplies
    /\ inflight = EmptyBag
    /\ Len(commentList.items) = 1
    /\ Len(FetchCommentsResult(currentRepo, currentPR)) = 2

\* C13: 'r' in state Comments toggles showReplies, sets loading and issues
\* exactly one fetch-comments for the current repository and pull request;
\* the comment list, the navigation state and the references stay.
C13_ToggleRepliesRefetches ==
    [][(state = StateComments /\ KeyMsg("r")) =>
            /\ showReplies' = ~showReplies
            /\ loading'
            /\ inflight' = inflight (+)
                   SetToBag({FetchCommentsCmd(currentRepo, currentPR)})
            /\ UNCHANGED <<commentList, state, refs>>
      ]_vars

C13_Witness ==
    /\ state = StateComments
    /\ showReplies
    /\ loading
    /\ Len(commentList.items) = 1
    /\ inflight = SetToBag({FetchCommentsCmd(currentRepo, currentPR)})

\* a is an order-preserving subsequence of b.
RECURSIVE IsSubseq(_, _)
IsSubseq(a, b) ==
    IF a = <<>> THEN TRUE
    ELSE IF b = <<>> THEN FALSE
    ELSE IF a[1] = b[1] THEN IsSubseq(Tail(a), Tail(b))
    ELSE IsSubseq(a, Tail(b))

\* C14: for one fetched comment sequence the list made with showReplies off
\* is an order-preserving subsequence of the list made with it on, and the
\* entries the toggle adds are exactly those with a reply target.
C14_ToggleOnlyAdds ==
    fnOut # Nil =>
        /\ IsSubseq(fnOut.hidden, fnOut.shown)
        /\ fnOut.hidden = SelectSeq(fnOut.shown, HasNoReplyTarget)
        /\ Len(fnOut.shown) - Len(fnOut.hidden) =
               Len(SelectSeq(fnIn, LAMBDA c : c.inReplyTo # 0))

C14_Witness ==
    /\ fnOut # Nil
    /\ Len(fnOut.hidden) = 2
    /\ Len(fnOut.shown) = 3
    /\ fnOut.shown[2].inReplyTo # 0

\* C15: 't' in state CommentDetail flips useSimplePrompt, sets a non-empty
\* status and schedules one clear timer; the navigation state, the
\* references, the lists and loading stay.
C15_TogglePromptMode ==
    [][(state = StateCommentDetail /\ KeyMsg("t")) =>
            /\ useSimplePrompt' = ~useSimplePrompt
            /\ copyStatus' # ""
            /\ timers' = timers + 1
            /\ UNCHANGED <<state, refs, lists, loading>>
      ]_vars

C15_Witness ==
    /\ state = StateCommentDetail
    /\ ~useSimplePrompt
    /\ copyStatus = "Switched to Full prompt mode"
    /\ timers = 2

\* C16: 'p' in state CommentDetail flips useSimplePrompt.
C16_PTogglesPromptMode ==
    (state = StateCommentDetail /\ ENABLED KeyMsg("p")) =>
        ENABLED (KeyMsg("p") /\ useSimplePrompt' = ~useSimplePrompt)

\* C17: 'c' in state CommentDetail sets the status to the success message of
\* the selected mode or to the failure message and schedules one clear timer
\* in both cases; nothing else of the App changes and the program goes on.
C17_CopyPrompt ==
    [][(state = StateCommentDetail /\ KeyMsg("c")) =>
            /\ copyStatus' \in
                   {"Copy failed",
                    IF useSimplePrompt THEN "Simple prompt copied to clipboard!"
                    ELSE "Full prompt copied to clipboard!"}
            /\ timers' = timers + 1
            /\ ~quit'
            /\ UNCHANGED <<state, refs, lists, settings, err, loading,
                           commentViewport, inflight>>
      ]_vars

C17_Witness ==
    /\ state = StateCommentDetail
    /\ copyStatus = "Copy failed"
    /\ timers = 1
    /\ ~quit

\* C18: a non-empty status always has a clear timer pending, and with timer
\* events delivered fairly it becomes empty (unless the program quits).
C18_StatusCleared ==
    /\ [](copyStatus # "" => timers > 0)
    /\ (copyStatus # "") ~> (copyStatus = "" \/ quit)

C18_Witness ==
    /\ copyStatus = ""
    /\ timers = 0
    /\ useSimplePrompt
    /\ ~quit

\* C19: a status is cleared only by the timer scheduled together with it,
\* never by the timer of an earlier action.
C19_ClearedByOwnTimer ==
    [][(copyStatus # "" /\ copyStatus' = "") => (ownTimer /\ ~ownTimer')]_vars

\* C20: in state CommentDetail, once a resize to (W, H) has been handled and
\* the frame rendered, the viewport height is max(H - 6, 1) and its width
\* W - 4, whatever the viewport was before and whether or not a status is
\* displayed.
C20_ResizeSetsViewport ==
    (state = StateCommentDetail /\ <<width, height>> \in Sizes /\ ~ViewResizes) =>
        /\ commentViewport.Height = Max(height - 6, 1)
        /\ commentViewport.Width = width - 4

\* C21: the render pass View leaves every field of the App unchanged, the
\* detail viewport's height and width included.
C21_ViewReadOnly ==
    [][View => UNCHANGED appVars]_vars

\* The user is no longer at the level or in the context cmd was issued for.
Stale(cmd) ==
    CASE cmd.kind = "repos" -> state # StateRepos
      [] cmd.kind = "prs" -> state # StatePRs \/ currentRepo # cmd.repo
      [] OTHER -> \/ state \notin {StateComments, StateCommentDetail}
                  \/ currentRepo # cmd.repo
                  \/ currentPR # cmd.pr

\* C22: a result arriving after the user has left its level or context is
\* still applied to the list of the level it was fetched for, and changes
\* neither the navigation state nor a selection reference.
C22_StaleResultApplied ==
    [][\A cmd \in BagToSet(inflight) :
            /\ (Stale(cmd) /\ ReposMsg(cmd, FALSE)) =>
                    /\ repoList'.items = FetchReposResult
                    /\ UNCHANGED <<state, refs>>
            /\ (Stale(cmd) /\ PRsMsg(cmd, FALSE)) =>
                    /\ prList'.items = FetchPRsResult(cmd.repo)
                    /\ UNCHANGED <<state, refs>>
            /\ (Stale(cmd) /\ CommentsMsg(cmd, FALSE)) =>
                    /\ commentList'.items =
                           replyFilter(showReplies,
                                       FetchCommentsResult(cmd.repo, cmd.pr))
                    /\ UNCHANGED <<state, refs>>
      ]_vars

\* At repository 1, which has pull requests, with nothing in flight: the list
\* is empty because the result for repository 2 arrived last.
C22_Witness ==
    /\ state = StatePRs
    /\ currentRepo = Repo(1)
    /\ FetchPRsResult(currentRepo) # <<>>
    /\ prList.items = <<>>
    /\ ~loading
    /\ err = ErrNil
    /\ inflight = EmptyBag

\* How often each element occurs in a sequence.
Occurrences(s) ==
    [x \in {s[i] : i \in DOMAIN s} |->
        Cardinality({i \in DOMAIN s : s[i] = x})]

IsPermutation(a, b) == Occurrences(a) = Occurrences(b)

\* C23: for any order of pull requests with distinct numbers the result
\* delivered, and the list made of it, is a permutation of the input in
\* strictly descending order of number.
C23_PRsDescending ==
    (fnOut # Nil /\ fnIn.fn = "FetchPRs") =>
        /\ IsPermutation(fnOut.delivered, fnIn.arg)
        /\ \A i, j \in DOMAIN fnOut.delivered :
               i < j => fnOut.delivered[i].number > fnOut.delivered[j].number
        /\ fnOut.list = fnOut.delivered

C23_Witness ==
    /\ fnOut # Nil
    /\ fnIn.fn = "FetchPRs"
    /\ Len(fnIn.arg) = 3
    /\ fnIn.arg[1].number < fnIn.arg[3].number
    /\ fnIn.arg[3].number < fnIn.arg[2].number
    /\ fnOut.list # fnIn.arg

\* Later timestamps first, comments without a timestamp last.
NewestFirst(s) ==
    \A i, j \in DOMAIN s :
        /\ (s[i].updatedAt # 0 /\ s[j].updatedAt # 0
                /\ s[i].updatedAt > s[j].updatedAt) => i < j
        /\ (s[i].updatedAt # 0 /\ s[j].updatedAt = 0) => i < j

C25_ScrollOnlyOffset ==
    [][(state = StateCommentDetail /\ \E key \in ScrollKeys : KeyMsg(key)) =>
            /\ UNCHANGED <<state, refs, lists, loading, err, settings,
                           copyStatus, width, height, inflight, timers>>
            /\ commentViewport'.Width = commentViewport.Width
            /\ commentViewport'.Height = commentViewport.Height
            /\ commentViewport'.lines = commentViewport.lines
      ]_vars

C25_Witness ==
    /\ state = StateCommentDetail
    /\ commentViewport.YOffset > 0
    /\ copyStatus # ""

\* C26: while the program runs, 'q' and ctrl+c each terminate it, at any
\* level, while loading, with an error stored and with fetches or timers
\* pending.
C26_QuitTerminates ==
    Running =>
        /\ ENABLED (KeyMsg("q") /\ quit')
        /\ ENABLED (KeyMsg("ctrl+c") /\ quit')

C26_Witness ==
    /\ quit
    /\ state = StateCommentDetail
    /\ loading
    /\ inflight # EmptyBag
    /\ timers > 0

\* C27: showReplies changes only by 'r' pressed in state Comments and
\* useSimplePrompt only by 't' pressed in state CommentDetail; every other
\* key, Enter, Back, resize, fetch result and timer event leaves both as
\* they are, so the values persist across navigation.
C27_SettingsGated ==
    [][/\ showReplies' # showReplies =>
              (state = StateComments /\ KeyMsg("r"))
       /\ useSimplePrompt' # useSimplePrompt =>
              (state = StateCommentDetail /\ KeyMsg("t"))]_vars

C27_Witness ==
    /\ showReplies
    /\ useSimplePrompt
    /\ state = StateRepos
    /\ currentRepo = Nil

\* The single/multi rule in the words of the specification: a range when a
\* start is present and differs from the end, else the end alone.
LineSuffix(start, end) ==
    IF start # 0 /\ start # end THEN "L" \o Itoa(start) \o "-" \o Itoa(end)
    ELSE "L" \o Itoa(end)

HasOriginalSuffix(c) == c.originalLine # 0 /\ c.originalLine # c.line

ExampleComment(l, sl, ol, osl) ==
    [path |-> "a.go", line |-> l, startLine |-> sl, originalLine |-> ol,
     originalStartLine |-> osl, author |-> "octo", createdAt |-> Nil,
     updatedAt |-> Nil]

\* C28: for every line value the description of a comment with a path ends
\* in L<start>-<line> when line is set and startLine is non-zero and differs
\* from it, in L<line> when line is set otherwise, followed by (orig L...)
\* built by the same rule iff originalLine is non-zero and differs from
\* line; the prompt's line ranges follow the same rule; the three scenarios
\* of the specification give L12, L15-20 and L20 (orig L8-10).
C28_LineSuffix ==
    fnOut # Nil =>
        LET c == fnIn.arg IN
        /\ (fnIn.fn = "CommentItem.Description" /\ c.path # "") =>
               fnOut.description =
                   "by " \o c.author \o " " \o Bullet \o " " \o timeInfo(c)
                   \o " " \o Bullet \o " " \o c.path
                   \o (IF c.line # 0
                       THEN " " \o LineSuffix(c.startLine, c.line) ELSE "")
                   \o (IF HasOriginalSuffix(c)
                       THEN " (orig "
                            \o LineSuffix(c.originalStartLine, c.originalLine)
                            \o ")"
                       ELSE "")
        /\ fnIn.fn = "buildTemplateData" =>
               /\ c.line # 0 =>
                      fnOut.LineRange = LineSuffix(c.startLine, c.line)
               /\ fnOut.OriginalLineRange # "" <=> HasOriginalSuffix(c)
               /\ HasOriginalSuffix(c) =>
                      fnOut.OriginalLineRange =
                          LineSuffix(c.originalStartLine, c.originalLine)
        /\ (fnIn.fn = "CommentItem.Description"
            /\ c = ExampleComment(12, 12, 12, 0)) =>
               fnOut.description = "by octo *  * a.go L12"
        /\ (fnIn.fn = "CommentItem.Description"
            /\ c = ExampleComment(20, 15, 0, 0)) =>
               fnOut.description = "by octo *  * a.go L15-20"
        /\ (fnIn.fn = "CommentItem.Description"
            /\ c = ExampleComment(20, 20, 10, 8)) =>
               fnOut.description = "by octo *  * a.go L20 (orig L8-10)"

C28_Witness ==
    /\ fnOut # Nil
    /\ fnIn.fn = "CommentItem.Description"
    /\ fnIn.arg = ExampleComment(20, 0, 10, 8)
    /\ fnOut.description = "by octo *  * a.go L20 (orig L8-10)"

\* C29: the description of a repository with no description and no language
\* but an update time is just the updated-date segment, with no separator
\* before it.
C29_OnlyUpdatedSegment ==
    (/\ fnOut # Nil
     /\ fnIn.fn = "RepoItem.Description"
     /\ fnIn.arg.description = ""
     /\ fnIn.arg.language = ""
     /\ fnIn.arg.updatedAt # Nil) =>
        fnOut.description = "Updated " \o FormatDate(fnIn.arg.updatedAt)

\* C30: the selection is coherent with the fetch it came from: a set
\* currentPR is a pull request of the current currentRepo, and a set
\* currentComment is a comment of the current currentRepo and currentPR.
C30_SelectionCoherent ==
    /\ currentPR # Nil =>
           (currentRepo # Nil /\ currentPR.repo = currentRepo.id)
    /\ currentComment # Nil =>
           /\ currentRepo # Nil /\ currentComment.repo = currentRepo.id
           /\ currentPR # Nil /\ currentComment.pr = currentPR.number

\* The kind of fetch whose result replaces the list of the current level.
LevelFetchKind ==
    CASE state = StateRepos -> "repos"
      [] state = StatePRs -> "prs"
      [] OTHER -> "comments"

\* C31: whenever loading is off and no error is stored, no fetch whose
\* result would replace the list of the current level is still in flight.
C31_LoadingTracksFetch ==
    (~loading /\ err = ErrNil) =>
        \A cmd \in BagToSet(inflight) : cmd.kind # LevelFetchKind

\* C32: at quiescence (no fetch in flight, no error stored) the list of the
\* current level holds the result of a fetch for the current context: the
\* pull requests of currentRepo in state PullRequests, the comments of
\* currentRepo and currentPR filtered with the current showReplies in states
\* Comments and CommentDetail.
C32_QuiescentListCurrent ==
    (inflight = EmptyBag /\ err = ErrNil) =>
        /\ state = StatePRs =>
               prList.items = FetchPRsResult(currentRepo)
        /\ state \in {StateComments, StateCommentDetail} =>
               commentList.items =
                   filteredComments(FetchCommentsResult(currentRepo, currentPR))

\* C33: every event that sets loading (Enter at Repositories or
\* PullRequests, 'r' at Comments) issues a fetch whose context is set, so a
\* fetch is in flight whenever loading is on; a result message belongs to
\* a fetch in flight, uses it up and switches loading off; and with results
\* delivered fairly loading eventually goes off again (unless the program
\* quits).
C33_LoadingEnds ==
    /\ [][((KeyMsg("enter") /\ state \in {StateRepos, StatePRs}
                /\ state' # state)
           \/ (state = StateComments /\ KeyMsg("r") /\ ~quit')) =>
              /\ loading'
              /\ \E cmd \in Commands :
                     /\ inflight' = inflight (+) SetToBag({cmd})
                     /\ cmd.repo # Nil
                     /\ state = StateRepos \/ cmd.pr # Nil]_vars
    /\ [](loading => inflight # EmptyBag)
    /\ [][\A cmd \in Commands :
               Deliver(cmd) =>
                   /\ BagIn(cmd, inflight)
                   /\ inflight' = inflight (-) SetToBag({cmd})
                   /\ ~loading']_vars
    /\ loading ~> (~loading \/ quit)

C33_Witness ==
    /\ ~loading
    /\ ~quit
    /\ err = ErrNil
    /\ state = StateComments
    /\ showReplies
    /\ inflight = EmptyBag
    /\ Len(commentList.items) = 2

\* The filter text of the current level's list is being typed.
TypingFilter ==
    CASE state = StateRepos -> SettingFilter(repoList)
      [] state = StatePRs -> SettingFilter(prList)
      [] state = StateComments -> SettingFilter(commentList)
      [] OTHER -> FALSE

\* C34: while the filter text of the current list is being typed, 'q' does
\* not quit, 'r' does not toggle showReplies or issue a fetch, and Enter does
\* not navigate to another level.
C34_FilterCapturesKeys ==
    [][(TypingFilter /\ (KeyMsg("q") \/ KeyMsg("r") \/ KeyMsg("enter"))) =>
           /\ quit' = quit
           /\ showReplies' = showReplies
           /\ inflight' = inflight
           /\ state' = state]_vars

====
